---- MODULE Spec2Model ----
(***************************************************************************)
(* Model of the critical-error dialog of the installer WebUI               *)
(* (ui/webui/src/components/Error.jsx) and of the boot.iso build workflow  *)
(* (.github/workflows/build-boot-iso.yml.j2).                              *)
(*                                                                         *)
(* JavaScript strings are sequences of one-character strings, so that the  *)
(* query-string encoding done by URL/URLSearchParams is computed and not   *)
(* assumed.  The JavaScript value undefined is the one-element sequence    *)
(* Undefined, whose element is not a character.                            *)
(***************************************************************************)
EXTENDS Integers, Sequences, FiniteSets, TLC

VARIABLES
    \* ---- props of CriticalError
    exception,        \* { name, message, contextData }
    isBootIso,
    reportLinkURL,
    \* ---- the component
    phase,            \* "init" | "rendered" | "mounted" | "threw" | "exited"
    reportURL,        \* const reportURL (line 73)
    logContent,       \* useState() (line 74)
    preparingReport,  \* useState(false) (line 75)
    \* ---- the host
    spawnState,       \* promise of cockpit.spawn(["journalctl", "-a"])
    spawnCount,       \* number of cockpit.spawn calls
    writes,           \* pending cockpit.file("/tmp/webui.log").replace() calls
    results,          \* outcomes of the settled writes, oldest first
    fileContent,      \* content of /tmp/webui.log
    opened,           \* window.open calls, oldest first
    triggerLog,       \* what each activation of the report control did
    exitCalls,        \* number of exitGui calls
    \* ---- the boot.iso workflow
    distro_release,   \* template variable
    event,            \* github.event: event_name, comment body, sender permission
    prInfo,           \* outcome of each step of job pr-info
    prInfoOutputs,    \* outputs of job pr-info
    run               \* outcome of each step of job run

dialogVars == <<exception, isBootIso, reportLinkURL, phase, reportURL,
                logContent, preparingReport, spawnState, spawnCount, writes,
                results, fileContent, opened, triggerLog, exitCalls>>
workflowVars == <<distro_release, event, prInfo, prInfoOutputs, run>>
vars == <<dialogVars, workflowVars>>

----------------------------------------------------------------------------
(* Bounds *)

MaxTriggers == 3      \* activations of the report control in one behaviour
MaxStrLen == 1        \* length of the exception's name, message and context

----------------------------------------------------------------------------
(* JavaScript values *)

Undefined == <<"undefined">>

\* JavaScript truthiness of a string or undefined.
Truthy(v) == v # Undefined /\ v # <<>>

StartsWithSeq(s, p) == Len(s) >= Len(p) /\ SubSeq(s, 1, Len(p)) = p

\* Position of the first occurrence of character c in s at or after i; 0 if none.
IndexFrom(s, c, i) ==
    LET hits == {j \in i..Len(s) : s[j] = c}
    IN  IF hits = {} THEN 0 ELSE CHOOSE j \in hits : \A k \in hits : j <= k

\* Concatenation of a sequence of sequences.
RECURSIVE Flatten(_)
Flatten(ss) ==
    IF Len(ss) = 0 THEN <<>>
    ELSE IF Len(ss) = 1 THEN ss[1]
    ELSE LET h == Len(ss) \div 2
         IN  Flatten(SubSeq(ss, 1, h)) \o Flatten(SubSeq(ss, h + 1, Len(ss)))

----------------------------------------------------------------------------
(* URL and URLSearchParams (the parts Error.jsx uses) *)

Letters == {"a", "b", "c", "d", "e", "f", "g", "h", "i", "j", "k", "l", "m",
            "n", "o", "p", "q", "r", "s", "t", "u", "v", "w", "x", "y", "z",
            "A", "B", "C", "D", "E", "F", "G", "H", "I", "J", "K", "L", "M",
            "N", "O", "P", "Q", "R", "S", "T", "U", "V", "W", "X", "Y", "Z"}
Digits == {"0", "1", "2", "3", "4", "5", "6", "7", "8", "9"}

\* Characters the application/x-www-form-urlencoded serializer leaves alone.
Unreserved == Letters \cup Digits \cup {"*", "-", ".", "_"}

\* Percent codes of the other characters that occur in the model.
PercentCode ==
    [c \in {":", "\n", "/", "+", "%", "&", "=", "?", ",", "#"} |->
        CASE c = ":"  -> <<"%", "3", "A">>
          [] c = "\n" -> <<"%", "0", "A">>
          [] c = "/"  -> <<"%", "2", "F">>
          [] c = "+"  -> <<"%", "2", "B">>
          [] c = "%"  -> <<"%", "2", "5">>
          [] c = "&"  -> <<"%", "2", "6">>
          [] c = "="  -> <<"%", "3", "D">>
          [] c = "?"  -> <<"%", "3", "F">>
          [] c = ","  -> <<"%", "2", "C">>
          [] c = "#"  -> <<"%", "2", "3">>]

EncodeChar(c) ==
    IF c \in Unreserved THEN <<c>>
    ELSE IF c = " " THEN <<"+">>
    ELSE PercentCode[c]

FormEncode(s) == Flatten([i \in 1..Len(s) |-> EncodeChar(s[i])])

\* A percent code starts at position i of s.
IsEscapeAt(s, i) ==
    /\ i >= 1
    /\ i + 2 <= Len(s)
    /\ s[i] = "%"
    /\ \E c \in DOMAIN PercentCode : PercentCode[c] = SubSeq(s, i, i + 2)

\* What position i of s decodes to.  The two characters after the "%" of a
\* percent code are hexadecimal digits, so they start no code themselves.
DecodeAt(s, i) ==
    IF IsEscapeAt(s, i)
    THEN <<CHOOSE c \in DOMAIN PercentCode : PercentCode[c] = SubSeq(s, i, i + 2)>>
    ELSE IF IsEscapeAt(s, i - 1) \/ IsEscapeAt(s, i - 2) THEN <<>>
    ELSE IF s[i] = "+" THEN <<" ">>
    ELSE <<s[i]>>

FormDecode(s) == Flatten([i \in 1..Len(s) |-> DecodeAt(s, i)])

\* URLSearchParams -> query string: name=value pairs joined by "&".
RECURSIVE SerializeParams(_)
SerializeParams(params) ==
    IF params = <<>> THEN <<>>
    ELSE FormEncode(Head(params)[1]) \o <<"=">> \o FormEncode(Head(params)[2])
         \o (IF Tail(params) = <<>> THEN <<>> ELSE <<"&">> \o SerializeParams(Tail(params)))

\* One name=value piece of a query string.
ParsePair(piece) ==
    LET eq == IndexFrom(piece, "=", 1)
    IN  IF eq = 0 THEN <<FormDecode(piece), <<>>>>
        ELSE <<FormDecode(SubSeq(piece, 1, eq - 1)),
               FormDecode(SubSeq(piece, eq + 1, Len(piece)))>>

\* query string -> URLSearchParams: split at "&", empty pieces dropped.
RECURSIVE ParseQuery(_)
ParseQuery(q) ==
    IF q = <<>> THEN <<>>
    ELSE LET amp   == IndexFrom(q, "&", 1)
             piece == IF amp = 0 THEN q ELSE SubSeq(q, 1, amp - 1)
             rest  == IF amp = 0 THEN <<>> ELSE SubSeq(q, amp + 1, Len(q))
         IN  (IF piece = <<>> THEN <<>> ELSE <<ParsePair(piece)>>) \o ParseQuery(rest)

HttpsScheme == <<"h", "t", "t", "p", "s", ":", "/", "/">>
HttpScheme == <<"h", "t", "t", "p", ":", "/", "/">>

SchemeLen(s) ==
    IF StartsWithSeq(s, HttpsScheme) THEN Len(HttpsScheme)
    ELSE IF StartsWithSeq(s, HttpScheme) THEN Len(HttpScheme)
    ELSE 0

\* new URL(s) throws TypeError unless s is an absolute URL with a host.
CanParseURL(s) ==
    /\ SchemeLen(s) > 0
    /\ Len(s) > SchemeLen(s)
    /\ s[SchemeLen(s) + 1] \notin {"/", "?", "#"}

\* new URL(s) for a string that parses.
ParseURL(s) ==
    LET n       == SchemeLen(s)
        q       == IndexFrom(s, "?", n + 1)
        pathEnd == IF q = 0 THEN Len(s) ELSE q - 1
        slash   == IndexFrom(SubSeq(s, 1, pathEnd), "/", n + 1)
    IN  [origin       |-> IF slash = 0 THEN SubSeq(s, 1, pathEnd) ELSE SubSeq(s, 1, slash - 1),
         pathname     |-> IF slash = 0 THEN <<"/">> ELSE SubSeq(s, slash, pathEnd),
         searchParams |-> IF q = 0 THEN <<>> ELSE ParseQuery(SubSeq(s, q + 1, Len(s)))]

\* url.href
Href(url) ==
    url.origin \o url.pathname
    \o (IF url.searchParams = <<>> THEN <<>> ELSE <<"?">> \o SerializeParams(url.searchParams))

\* url.searchParams.append(name, value)
SearchParamsAppend(url, name, value) ==
    [url EXCEPT !.searchParams = Append(@, <<name, value>>)]

\* Values of every parameter called name, in order (searchParams.getAll).
SearchParamsGetAll(url, name) ==
    SelectSeq(url.searchParams, LAMBDA p : p[1] = name)

----------------------------------------------------------------------------
(* Error.jsx: the report URL *)

\* cockpit.gettext: the message of the loaded catalogue, else the message
\* itself.  The model runs in the source language, with no catalogue loaded.
Catalog == [m \in {} |-> <<>>]
Gettext(m) == IF m \in DOMAIN Catalog THEN Catalog[m] ELSE m

\* { ...obj, key: value } on an object kept as its (key, value) pairs in
\* insertion order.
SetKey(obj, key, value) ==
    IF \E i \in DOMAIN obj : obj[i][1] = key
    THEN [i \in DOMAIN obj |-> IF obj[i][1] = key THEN <<key, value>> ELSE obj[i]]
    ELSE Append(obj, <<key, value>>)

BugzillaBaseURL ==
    <<"h", "t", "t", "p", "s", ":", "/", "/", "b", "u", "g", "z", "i", "l", "l", "a",
      ".", "r", "e", "d", "h", "a", "t", ".", "c", "o", "m">>
EnterBugPath == <<"/", "e", "n", "t", "e", "r", "_", "b", "u", "g", ".", "c", "g", "i">>
ComponentKey == <<"c", "o", "m", "p", "o", "n", "e", "n", "t">>
AnacondaComponent == <<"a", "n", "a", "c", "o", "n", "d", "a">>
ProductKey == <<"p", "r", "o", "d", "u", "c", "t">>
VersionKey == <<"v", "e", "r", "s", "i", "o", "n">>
ShortDescKey == <<"s", "h", "o", "r", "t", "_", "d", "e", "s", "c">>
CommentKey == <<"c", "o", "m", "m", "e", "n", "t">>
WebUIPrefix == <<"W", "e", "b", "U", "I", ":", " ">>
CommentHeader ==
    <<"I", "n", "s", "t", "a", "l", "l", "e", "r", " ", "W", "e", "b", "U", "I", " ",
      "C", "r", "i", "t", "i", "c", "a", "l", " ", "E", "r", "r", "o", "r", ":", "\n">>
AttachLogMessage ==
    <<"P", "l", "e", "a", "s", "e", " ", "a", "t", "t", "a", "c", "h", " ", "t", "h",
      "e", " ", "f", "i", "l", "e", " ", "/", "t", "m", "p", "/", "w", "e", "b", "u",
      "i", ".", "l", "o", "g", " ", "t", "o", " ", "t", "h", "e", " ", "i", "s", "s",
      "u", "e", ".">>

RECURSIVE AppendAll(_, _)
AppendAll(url, queryData) ==
    IF queryData = <<>> THEN url
    ELSE AppendAll(SearchParamsAppend(url, Head(queryData)[1], Head(queryData)[2]),
                   Tail(queryData))

bugzillaPrefiledReportURL(productQueryData) ==
    LET queryData == SetKey(productQueryData, ComponentKey, AnacondaComponent)
        reportUrl == [ParseURL(BugzillaBaseURL) EXCEPT !.pathname = EnterBugPath]
    IN  Href(AppendAll(reportUrl, queryData))

\* exception.contextData?.context
OptionalContext(exc) ==
    IF exc.contextData.defined THEN exc.contextData.context ELSE Undefined

ContextPrefixNoSpace(exc) ==
    IF Truthy(OptionalContext(exc)) THEN OptionalContext(exc) ELSE <<>>

\* const context (line 59)
ContextPrefix(exc) ==
    IF Truthy(OptionalContext(exc)) THEN OptionalContext(exc) \o <<" ">> ELSE <<>>

ShortDesc(exc) ==
    WebUIPrefix \o ContextPrefix(exc) \o exc.name \o <<":", " ">> \o exc.message

CommentBody(exc) ==
    CommentHeader \o ContextPrefix(exc) \o exc.name \o <<":", " ">> \o exc.message
    \o <<"\n", "\n">> \o Gettext(AttachLogMessage)

\* Defined when new URL(url) does not throw.
addExceptionDataToReportURL(url, exc) ==
    LET newUrl == ParseURL(url)
        withDesc == SearchParamsAppend(newUrl, ShortDescKey, ShortDesc(exc))
    IN  Href(SearchParamsAppend(withDesc, CommentKey, CommentBody(exc)))

----------------------------------------------------------------------------
(* Inputs of the dialog *)

NoContextData == [defined |-> FALSE, context |-> Undefined]
ContextData(c) == [defined |-> TRUE, context |-> c]

TypeErrorName == <<"T", "y", "p", "e", "E", "r", "r", "o", "r">>
XUndefinedMessage == <<"x", " ", "i", "s", " ", "u", "n", "d", "e", "f", "i", "n", "e", "d">>
StorageContext == <<"S", "t", "o", "r", "a", "g", "e">>

\* Exceptions shown by the dialog.
Exceptions ==
    {[name |-> TypeErrorName, message |-> XUndefinedMessage, contextData |-> NoContextData],
     [name |-> TypeErrorName, message |-> XUndefinedMessage, contextData |-> ContextData(StorageContext)],
     [name |-> <<"E", "r", "r", "o", "r">>, message |-> <<>>, contextData |-> ContextData(<<>>)]}

\* Characters of the generated exception fields: the ones the query string
\* gives a meaning to.
Alphabet == {" ", "+", "&", "="}

RECURSIVE StringsUpTo(_)
StringsUpTo(n) ==
    IF n = 0 THEN {<<>>}
    ELSE LET shorter == StringsUpTo(n - 1)
         IN  shorter \cup {Append(s, c) : s \in shorter, c \in Alphabet}

GeneratedExceptions ==
    [name : StringsUpTo(MaxStrLen),
     message : StringsUpTo(MaxStrLen),
     contextData : {NoContextData, ContextData(Undefined)}
                   \cup {ContextData(c) : c \in StringsUpTo(MaxStrLen)}]

FedoraProduct == <<"F", "e", "d", "o", "r", "a">>
RawhideVersion == <<"r", "a", "w", "h", "i", "d", "e">>

ProductQueries ==
    {<<<<ProductKey, FedoraProduct>>, <<VersionKey, RawhideVersion>>>>,
     <<<<ComponentKey, <<"x">>>>, <<ShortDescKey, <<"o", "l", "d">>>>>>}

\* reportLinkURL: not supplied, empty, or a prefiled report URL.
ReportLinkURLs ==
    {Undefined, <<>>} \cup {bugzillaPrefiledReportURL(q) : q \in ProductQueries}

\* Texts of the journal and of the text area.
JournalTexts ==
    {<<>>, <<"l", "i", "n", "e", "1", "\n", "l", "i", "n", "e", "2">>}
LogTexts ==
    JournalTexts \cup {<<"l", "i", "n", "e", "1">>}

WebuiLogPath == <<"/", "t", "m", "p", "/", "w", "e", "b", "u", "i", ".", "l", "o", "g">>

----------------------------------------------------------------------------
(* Error.jsx: CriticalError *)

\* The modal is on screen.
DialogShown == phase = "mounted"

\* {reportLinkURL && <Button ...>} (line 107)
ReportShown == DialogShown /\ Truthy(reportLinkURL)

ReportDisabledLoadingOnly == logContent = Undefined

\* isDisabled of the report control (line 111)
ReportDisabled == logContent = Undefined \/ preparingReport

\* isLoading and label of the report control (lines 110, 115)
ReportLoading == preparingReport
ReportLabel == IF preparingReport THEN "Preparing report" ELSE "Report issue"

LogDisabledLoadingOnly == logContent = Undefined

\* isDisabled of the text area (line 142)
LogDisabled == logContent = Undefined \/ preparingReport

QuitDisabledWhilePreparing == preparingReport

\* The secondary button has no isDisabled (line 117).
QuitDisabled == FALSE

QuitLabel == IF isBootIso THEN "Reboot" ELSE "Quit"

\* Error details (line 129)
ErrorDetails == exception.name \o <<":", " ">> \o exception.message

EffectRunsEveryRender(firstRender) == TRUE

\* useEffect(..., []): the effect runs after the first render only (line 80).
EffectRuns(firstRender) == firstRender

OpensReportAlways(outcome) == TRUE

\* .always() hands back the promise of replace(), so the callback of the
\* .then() that follows runs when the write is fulfilled (lines 87-88).
OpensReport(outcome) == outcome = "ok"

PreparingAfterSettleOnFulfil(outcome) == outcome # "ok"

\* .always(() => setPreparingReport(false)) (line 87)
PreparingAfterSettle(outcome) == FALSE

\* The effect of lines 77-80 after a render.
Effect(firstRender, settled) ==
    IF EffectRuns(firstRender)
    THEN spawnCount' = spawnCount + 1 /\ spawnState' = "pending"
    ELSE spawnCount' = spawnCount /\ spawnState' = settled

\* First render of <CriticalError> and its effect.
Mount ==
    /\ phase = "init"
    /\ IF CanParseURL(reportLinkURL)
       THEN /\ phase' = "mounted"
            /\ reportURL' = addExceptionDataToReportURL(reportLinkURL, exception)
            /\ Effect(TRUE, spawnState)
       ELSE /\ phase' = "threw"
            /\ UNCHANGED <<reportURL, spawnState, spawnCount>>
    /\ UNCHANGED <<exception, isBootIso, reportLinkURL, logContent, preparingReport,
                   writes, results, fileContent, opened, triggerLog, exitCalls>>
    /\ UNCHANGED workflowVars

\* journalctl -a finished: .then(content => setLogContent(content)) (line 79)
SpawnResolve ==
    /\ phase = "mounted"
    /\ spawnState = "pending"
    /\ \E content \in JournalTexts : logContent' = content
    /\ Effect(FALSE, "resolved")
    /\ UNCHANGED <<exception, isBootIso, reportLinkURL, phase, reportURL, preparingReport,
                   writes, results, fileContent, opened, triggerLog, exitCalls>>
    /\ UNCHANGED workflowVars

\* journalctl -a failed: the promise has no rejection handler.
SpawnReject ==
    /\ phase = "mounted"
    /\ spawnState = "pending"
    /\ spawnState' = "rejected"
    /\ UNCHANGED <<exception, isBootIso, reportLinkURL, phase, reportURL, logContent,
                   preparingReport, spawnCount, writes, results, fileContent, opened,
                   triggerLog, exitCalls>>
    /\ UNCHANGED workflowVars

\* The user changes the text: onChange={setLogContent} (line 139)
EditLog ==
    /\ DialogShown
    /\ ~LogDisabled
    /\ \E value \in LogTexts : value # logContent /\ logContent' = value
    /\ Effect(FALSE, spawnState)
    /\ UNCHANGED <<exception, isBootIso, reportLinkURL, phase, reportURL, preparingReport,
                   writes, results, fileContent, opened, triggerLog, exitCalls>>
    /\ UNCHANGED workflowVars

\* openBZIssue (lines 82-89), up to the start of the write
openBZIssue(url) ==
    /\ preparingReport' = TRUE
    /\ writes' = Append(writes, [path |-> WebuiLogPath, content |-> logContent, url |-> url])

\* The user activates the report control; a disabled control ignores it.
TriggerReport ==
    /\ ReportShown
    /\ Len(triggerLog) < MaxTriggers
    /\ IF ReportDisabled
       THEN /\ triggerLog' = Append(triggerLog,
                                    IF writes # <<>> THEN "ignored-writing" ELSE "ignored")
            /\ UNCHANGED <<preparingReport, writes, spawnCount, spawnState>>
       ELSE /\ triggerLog' = Append(triggerLog, "write")
            /\ openBZIssue(reportURL)
            /\ Effect(FALSE, spawnState)
    /\ UNCHANGED <<exception, isBootIso, reportLinkURL, phase, reportURL, logContent,
                   results, fileContent, opened, exitCalls>>
    /\ UNCHANGED workflowVars

\* The oldest pending replace() settles; its callbacks run in turn.
ReplaceSettle(outcome) ==
    /\ phase = "mounted"
    /\ writes # <<>>
    /\ writes' = Tail(writes)
    /\ results' = Append(results, outcome)
    /\ fileContent' = IF outcome = "ok" THEN Head(writes).content ELSE fileContent
    /\ preparingReport' = PreparingAfterSettle(outcome)
    /\ opened' = IF OpensReport(outcome)
                 THEN Append(opened, [url |-> Head(writes).url, target |-> "_blank",
                                      features |-> "noopener,noreferer"])
                 ELSE opened
    /\ Effect(FALSE, spawnState)
    /\ UNCHANGED <<exception, isBootIso, reportLinkURL, phase, reportURL, logContent,
                   triggerLog, exitCalls>>
    /\ UNCHANGED workflowVars

ReplaceDone == ReplaceSettle("ok")
ReplaceFail == ReplaceSettle("failed")

\* The host exit routine: the page goes away with the application.
exitGui ==
    /\ exitCalls' = exitCalls + 1
    /\ phase' = "exited"

\* The user activates Quit/Reboot: onClick={exitGui} (line 117)
Quit ==
    /\ DialogShown
    /\ ~QuitDisabled
    /\ exitGui
    /\ UNCHANGED <<exception, isBootIso, reportLinkURL, reportURL, logContent,
                   preparingReport, spawnState, spawnCount, writes, results, fileContent,
                   opened, triggerLog>>
    /\ UNCHANGED workflowVars

\* No workflow run is under way.
WorkflowIdle ==
    /\ distro_release = "none"
    /\ event = [event_name |-> "none", body |-> <<>>, permission |-> <<>>]
    /\ prInfo = [status |-> "none", steps |-> <<>>]
    /\ prInfoOutputs = [allowed_user |-> "", sha |-> "", args |-> <<>>, image_description |-> <<>>]
    /\ run = [status |-> "none", steps |-> <<>>, webui |-> FALSE]

DialogStart ==
    /\ isBootIso \in BOOLEAN
    /\ reportLinkURL \in ReportLinkURLs
    /\ phase = "init"
    /\ reportURL = Undefined
    /\ logContent = Undefined
    /\ preparingReport = FALSE
    /\ spawnState = "none"
    /\ spawnCount = 0
    /\ writes = <<>>
    /\ results = <<>>
    /\ fileContent = Undefined
    /\ opened = <<>>
    /\ triggerLog = <<>>
    /\ exitCalls = 0

Init ==
    /\ exception \in Exceptions
    /\ DialogStart
    /\ WorkflowIdle

Next ==
    \/ Mount
    \/ SpawnResolve
    \/ SpawnReject
    \/ EditLog
    \/ TriggerReport
    \/ ReplaceDone
    \/ ReplaceFail
    \/ Quit

Spec == Init /\ [][Next]_vars

\* A started write settles, unless the application exits first.
LiveSpec == Spec /\ WF_vars(ReplaceDone \/ ReplaceFail)

\* The report URL alone, over generated exceptions.
URLInit ==
    /\ exception \in GeneratedExceptions
    /\ DialogStart
    /\ isBootIso = FALSE
    /\ WorkflowIdle

URLNext == Mount

URLSpec == URLInit /\ [][URLNext]_vars

----------------------------------------------------------------------------
(* Properties of the dialog *)

OpenedReport == [url |-> reportURL, target |-> "_blank", features |-> "noopener,noreferer"]

\* A write settled in this step.
Settles == Len(results') = Len(results) + 1

\* C1, as stated: whenever the write of the log settles, with success or
\* with failure, the report URL is opened.
C1_OpensAfterAnySettle ==
    [][Settles => opened' = Append(opened, OpenedReport)]_vars

\* C1, amended: a write that succeeds is followed by the opening of the
\* report URL in a new browsing context; a write that fails opens nothing.
C1_OpensOnlyAfterSuccess ==
    [][Settles =>
        IF results'[Len(results')] = "ok"
        THEN opened' = Append(opened, OpenedReport)
        ELSE opened' = opened]_vars

C1_FailedWriteOpenedNothing ==
    /\ \E i \in DOMAIN results : results[i] = "failed"
    /\ Len(opened) < Len(results)
    /\ ~preparingReport

\* C2: while the dialog is shown the report control is disabled exactly when
\* Log Content is undefined or a write is in flight; as long as the log fetch
\* has not resolved (pending or failed) it is disabled, and a failed fetch
\* stays failed.
C2_DisabledIffLoadingOrWriting ==
    /\ [](DialogShown =>
            /\ ReportDisabled <=> (logContent = Undefined \/ writes # <<>>)
            /\ spawnState # "resolved" => ReportDisabled)
    /\ [][spawnState = "rejected" => spawnState' = "rejected"]_vars

C2_DisabledAfterFailedFetch ==
    /\ DialogShown
    /\ spawnState = "rejected"
    /\ ReportDisabled
    /\ triggerLog # <<>>

\* C3: at most one write to /tmp/webui.log is in flight, and an activation of
\* the report control while a write is in flight starts no write and opens
\* no URL.
C3_SingleWriteInFlight ==
    /\ [](Len(writes) <= 1)
    /\ [][(writes # <<>> /\ triggerLog' # triggerLog) =>
            (writes' = writes /\ opened' = opened /\ preparingReport' = preparingReport)]_vars

C3_TriggerIgnoredWhileWriting ==
    /\ \E i \in DOMAIN triggerLog : triggerLog[i] = "ignored-writing"
    /\ Len(writes) = 1

\* C4: the report URL is opened only in the step in which the write of the
\* same report action settles; the text handed to a write is Log Content at
\* the trigger; and Log Content does not change while a write is in flight,
\* so the file written is the text on screen when the URL opens.
C4_OpensAfterWriteOfCurrentText ==
    [][/\ opened' # opened =>
            /\ writes # <<>>
            /\ writes' = Tail(writes)
            /\ fileContent' = Head(writes).content
            /\ fileContent' = logContent'
       /\ Len(writes') > Len(writes) => writes'[Len(writes')].content = logContent
       /\ writes # <<>> => logContent' = logContent]_vars

C4_EditedTextWrittenThenOpened ==
    /\ opened # <<>>
    /\ fileContent = logContent
    /\ fileContent \notin JournalTexts

\* C5: a write that settles, with success or failure, leaves preparingReport
\* false and the report control and the text area enabled; and, the write
\* settling eventually, Preparing leads to not Preparing (or the application
\* has exited).
C5_SettleLeavesPreparing ==
    /\ [][Settles => (~preparingReport' /\ ~ReportDisabled' /\ ~LogDisabled')]_vars
    /\ [](preparingReport => writes # <<>>)
    /\ (preparingReport ~> (~preparingReport \/ phase = "exited"))

C5_ReadyAfterBothOutcomes ==
    /\ DialogShown
    /\ \E i \in DOMAIN results : results[i] = "failed"
    /\ \E i \in DOMAIN results : results[i] = "ok"
    /\ ~preparingReport
    /\ ~ReportDisabled

\* C7: a step that edits Log Content changes nothing else (no write, no
\* fetch, no window, preparingReport unchanged), and journalctl is spawned
\* exactly once, at mount.
C7_EditChangesOnlyLogContent ==
    /\ [](spawnCount = IF phase \in {"mounted", "exited"} THEN 1 ELSE 0)
    /\ [][(logContent # Undefined /\ logContent' # logContent) =>
            UNCHANGED <<preparingReport, writes, results, fileContent, opened, spawnState,
                        spawnCount, triggerLog, exitCalls, phase, reportURL>>]_vars

C7_EditedAfterReport ==
    /\ results # <<>>
    /\ logContent # Undefined
    /\ logContent # fileContent
    /\ spawnCount = 1

\* C9, as stated: mounted without a report URL (undefined or empty), the
\* dialog is shown, with Quit/Reboot and without the report control.
C9_ShownWithoutReportURL ==
    (phase # "init" /\ ~Truthy(reportLinkURL)) =>
        (phase \in {"mounted", "exited"} /\ ~ReportShown)

\* C10: Quit/Reboot can be activated in every state of the shown dialog, and
\* activating it calls the exit routine without starting a write or a fetch
\* and without opening a window.
C10_QuitAlwaysEnabled ==
    /\ [](DialogShown => ENABLED Quit)
    /\ [][exitCalls' # exitCalls =>
            /\ exitCalls' = exitCalls + 1
            /\ UNCHANGED <<writes, results, fileContent, opened, spawnCount, spawnState,
                           logContent, preparingReport>>]_vars

C10_QuitWhileWriting ==
    /\ phase = "exited"
    /\ exitCalls = 1
    /\ writes # <<>>
    /\ preparingReport

----------------------------------------------------------------------------
(* Property of the report URL *)

\* The value of the last parameter called name in the query of href.
LastParam(href, name) ==
    LET values == SearchParamsGetAll(ParseURL(href), name)
    IN  values[Len(values)][2]

\* C6: the short_desc parameter of the report URL reads
\* "WebUI: " + N + ": " + M without context (contextData absent, context
\* absent or empty) and "WebUI: " + C + " " + N + ": " + M with context C.
C6_ShortDescEmbedsException ==
    phase = "mounted" =>
        LET N == exception.name
            M == exception.message
            C == exception.contextData.context
            noContext == ~exception.contextData.defined \/ C = Undefined \/ C = <<>>
        IN  LastParam(reportURL, ShortDescKey) =
                IF noContext
                THEN WebUIPrefix \o N \o <<":", " ">> \o M
                ELSE WebUIPrefix \o C \o <<" ">> \o N \o <<":", " ">> \o M

C6_ContextAndReservedCharacters ==
    /\ phase = "mounted"
    /\ exception.contextData.defined
    /\ exception.contextData.context = <<"&">>
    /\ exception.name = <<"=">>
    /\ exception.message = <<"+">>

----------------------------------------------------------------------------
(* build-boot-iso.yml.j2: expression functions *)

UpperToLower ==
    [c \in {"A", "B", "C", "D", "E", "F", "G", "H", "I", "J", "K", "L", "M",
            "N", "O", "P", "Q", "R", "S", "T", "U", "V", "W", "X", "Y", "Z"} |->
        CASE c = "A" -> "a" [] c = "B" -> "b" [] c = "C" -> "c" [] c = "D" -> "d"
          [] c = "E" -> "e" [] c = "F" -> "f" [] c = "G" -> "g" [] c = "H" -> "h"
          [] c = "I" -> "i" [] c = "J" -> "j" [] c = "K" -> "k" [] c = "L" -> "l"
          [] c = "M" -> "m" [] c = "N" -> "n" [] c = "O" -> "o" [] c = "P" -> "p"
          [] c = "Q" -> "q" [] c = "R" -> "r" [] c = "S" -> "s" [] c = "T" -> "t"
          [] c = "U" -> "u" [] c = "V" -> "v" [] c = "W" -> "w" [] c = "X" -> "x"
          [] c = "Y" -> "y" [] c = "Z" -> "z"]

ToLower(s) ==
    [i \in 1..Len(s) |-> IF s[i] \in DOMAIN UpperToLower THEN UpperToLower[s[i]] ELSE s[i]]

\* item occurs in search as a run of consecutive characters.
ContainsSeq(search, item) ==
    \E i \in 1..(Len(search) - Len(item) + 1) : SubSeq(search, i, i + Len(item) - 1) = item

\* startsWith(searchString, searchValue) of workflow expressions: ignores case.
startsWith(searchString, searchValue) ==
    StartsWithSeq(ToLower(searchString), ToLower(searchValue))

\* contains(search, item) of workflow expressions on a string: ignores case.
contains(search, item) == ContainsSeq(ToLower(search), ToLower(item))

----------------------------------------------------------------------------
(* build-boot-iso.yml.j2: inputs *)

BootIsoCommand == <<"/", "b", "o", "o", "t", "-", "i", "s", "o">>

AllowedPermissionsWithRead ==
    <<"a", "d", "m", "i", "n", " ", "w", "r", "i", "t", "e", " ", "r", "e", "a", "d">>

\* 'admin write' (line 35)
AllowedPermissions == <<"a", "d", "m", "i", "n", " ", "w", "r", "i", "t", "e">>

Admin == <<"a", "d", "m", "i", "n">>
Write == <<"w", "r", "i", "t", "e">>
Read == <<"r", "e", "a", "d">>
None == <<"n", "o", "n", "e">>

\* permission of GET /repos/{repo}/collaborators/{login}/permission
Permissions == {Admin, Write, Read, None}

WebuiOption == <<"-", "-", "w", "e", "b", "u", "i">>

CommentBodies ==
    {BootIsoCommand,
     <<"/", "b", "o", "o", "t", "-", "i", "s", "o", " ", "-", "-", "w", "e", "b", "u", "i",
       " ", "\n", "t", "h", "a", "n", "k", "s">>,
     <<"/", "B", "o", "o", "t", "-", "I", "S", "O">>,
     <<"/", "k", "i", "c", "k", "s", "t", "a", "r", "t", "-", "t", "e", "s", "t">>,
     <<"p", "l", "e", "a", "s", "e", " ", "/", "b", "o", "o", "t", "-", "i", "s", "o">>}

\* Events that start the workflow (lines 6-10).  A manual dispatch has no
\* comment; only users with write access can dispatch.
Events ==
    [event_name : {"issue_comment"}, body : CommentBodies, permission : Permissions]
    \cup [event_name : {"workflow_dispatch"}, body : {<<>>}, permission : {Admin, Write}]

\* Commit of the pull request, commit and branch of a manual run, number of
\* the commented issue.
HeadSha == "head-sha"
GithubSha == "github-sha"
GithubRefName == "ref-name"
IssueNumber == "issue-number"

----------------------------------------------------------------------------
(* build-boot-iso.yml.j2: jobs *)

\* {% if distro_release == "rawhide" %} (line 1)
WorkflowDefined == distro_release = "rawhide"

\* success(): no earlier step of the job failed.
Success(steps) == \A i \in DOMAIN steps : steps[i] # "failure"

\* Outcomes of a step whose condition is cond; a step without a status
\* function in its condition also needs success().
Outcomes(steps, cond, always) ==
    IF cond /\ (always \/ Success(steps)) THEN {"success", "failure"} ELSE {"skipped"}

Outcome(steps, i) == IF i \in DOMAIN steps THEN steps[i] ELSE "pending"

IsComment == event.event_name # "workflow_dispatch"

\* if of job pr-info (line 19)
PrInfoIf ==
    event.event_name = "workflow_dispatch" \/ startsWith(event.body, BootIsoCommand)

StartPrInfo ==
    /\ WorkflowDefined
    /\ prInfo.status = "queued"
    /\ prInfo' = [prInfo EXCEPT !.status = IF PrInfoIf THEN "running" ELSE "skipped"]
    /\ UNCHANGED <<distro_release, event, prInfoOutputs, run>>
    /\ UNCHANGED dialogVars

\* Step number n of pr-info, with condition cond, ends with some outcome.
PrInfoStep(n, cond) ==
    /\ prInfo.status = "running"
    /\ Len(prInfo.steps) = n - 1
    /\ \E outcome \in Outcomes(prInfo.steps, cond, FALSE) :
            prInfo' = [prInfo EXCEPT !.steps = Append(@, outcome)]

\* Query comment author repository permissions (lines 22-29)
QueryPermission ==
    /\ PrInfoStep(1, IsComment)
    /\ UNCHANGED <<distro_release, event, prInfoOutputs, run>>
    /\ UNCHANGED dialogVars

\* Check if user does have correct permissions (lines 34-39)
CheckUserPerm ==
    /\ PrInfoStep(2, IsComment /\ contains(AllowedPermissions, event.permission))
    /\ UNCHANGED <<distro_release, event, prInfoOutputs, run>>
    /\ UNCHANGED dialogVars

\* steps.check_user_perm.outputs.allowed_user
CheckUserPermAllowedUser == IF Outcome(prInfo.steps, 2) = "success" THEN "true" ELSE ""

\* Get information for pull request (lines 41-48)
GetPullRequest ==
    /\ PrInfoStep(3, IsComment)
    /\ UNCHANGED <<distro_release, event, prInfoOutputs, run>>
    /\ UNCHANGED dialogVars

\* steps.pr_api.outcome == 'success' && fromJson(...).head.sha, as text
PrApiSha == IF Outcome(prInfo.steps, 3) = "success" THEN HeadSha ELSE "false"

Whitespace == {" ", "\t", "\n", "\r"}

\* sed -n '1 s/^[^ ]* *//p' | sed 's/[[:space:]]*$//' (line 57)
ParseArgs(body) ==
    LET nl     == IndexFrom(body, "\n", 1)
        line   == IF nl = 0 THEN body ELSE SubSeq(body, 1, nl - 1)
        sp     == IndexFrom(line, " ", 1)
        starts == IF sp = 0 THEN {} ELSE {j \in sp..Len(line) : line[j] # " "}
        rest   == IF starts = {} THEN <<>>
                  ELSE SubSeq(line, CHOOSE j \in starts : \A k \in starts : j <= k, Len(line))
        ends   == {j \in 1..Len(rest) : rest[j] \notin Whitespace}
    IN  IF ends = {} THEN <<>>
        ELSE SubSeq(rest, 1, CHOOSE j \in ends : \A k \in ends : j >= k)

\* Parse arguments (lines 50-59)
ParseArguments ==
    /\ PrInfoStep(4, TRUE)
    /\ prInfoOutputs' =
          IF Outcome(prInfo'.steps, 4) = "success"
          THEN [prInfoOutputs EXCEPT !.args = ParseArgs(event.body)]
          ELSE prInfoOutputs
    /\ UNCHANGED <<distro_release, event, run>>
    /\ UNCHANGED dialogVars

\* Construct image description (lines 61-75)
ConstructImageDescription ==
    /\ PrInfoStep(5, TRUE)
    /\ prInfoOutputs' =
          IF Outcome(prInfo'.steps, 5) = "success"
          THEN [prInfoOutputs EXCEPT !.image_description =
                    IF event.event_name = "workflow_dispatch"
                    THEN <<GithubRefName, "-", GithubSha>>
                    ELSE <<"pr", IssueNumber, "-", PrApiSha>>]
          ELSE prInfoOutputs
    /\ UNCHANGED <<distro_release, event, run>>
    /\ UNCHANGED dialogVars

\* Mark comment as seen (lines 77-88)
MarkCommentSeen ==
    /\ PrInfoStep(6, IsComment)
    /\ UNCHANGED <<distro_release, event, prInfoOutputs, run>>
    /\ UNCHANGED dialogVars

\* Set outputs (lines 90-101)
SetOutputs ==
    /\ PrInfoStep(7, TRUE)
    /\ prInfoOutputs' =
          IF Outcome(prInfo'.steps, 7) # "success" THEN prInfoOutputs
          ELSE IF event.event_name = "workflow_dispatch"
          THEN [prInfoOutputs EXCEPT !.allowed_user = "true", !.sha = GithubSha]
          ELSE [prInfoOutputs EXCEPT
                    !.allowed_user = IF Outcome(prInfo.steps, 2) = "success"
                                     THEN CheckUserPermAllowedUser ELSE "false",
                    !.sha = PrApiSha]
    /\ UNCHANGED <<distro_release, event, run>>
    /\ UNCHANGED dialogVars

PrInfoStepCount == Len(<<"user_permission", "check_user_perm", "pr_api", "parse_args",
                         "image_description", "mark_seen", "set_outputs">>)

FinishPrInfo ==
    /\ prInfo.status = "running"
    /\ Len(prInfo.steps) = PrInfoStepCount
    /\ prInfo' = [prInfo EXCEPT !.status = IF Success(prInfo.steps) THEN "success" ELSE "failure"]
    /\ UNCHANGED <<distro_release, event, prInfoOutputs, run>>
    /\ UNCHANGED dialogVars

\* if of job run (line 112)
RunIf == prInfoOutputs.allowed_user = "true"

\* needs: pr-info (line 110): without a status function in its condition
\* the job also needs pr-info to have succeeded.
StartRun ==
    /\ prInfo.status \in {"success", "failure", "skipped"}
    /\ run.status = "queued"
    /\ run' = [run EXCEPT !.status =
                  IF prInfo.status = "success" /\ RunIf THEN "running" ELSE "skipped"]
    /\ UNCHANGED <<distro_release, event, prInfo, prInfoOutputs>>
    /\ UNCHANGED dialogVars

\* Steps of job run (lines 119-207): name, condition, always().
RunSteps ==
    <<[name |-> "Create in-progress status", cond |-> TRUE, always |-> FALSE],
      [name |-> "Clone repository", cond |-> TRUE, always |-> FALSE],
      [name |-> "Build anaconda-iso-creator container image", cond |-> TRUE, always |-> FALSE],
      [name |-> "Build anaconda-rpm container (for RPM build)", cond |-> TRUE, always |-> FALSE],
      [name |-> "Build Anaconda RPM files", cond |-> TRUE, always |-> FALSE],
      [name |-> "Build the boot.iso", cond |-> TRUE, always |-> FALSE],
      [name |-> "Collect logs", cond |-> TRUE, always |-> TRUE],
      [name |-> "Upload image", cond |-> TRUE, always |-> FALSE],
      [name |-> "Add comment with link to PR", cond |-> IsComment, always |-> FALSE],
      [name |-> "Set result status", cond |-> TRUE, always |-> TRUE]>>

\* The next step of job run ends with some outcome; the boot.iso step picks
\* the webui entry point when the arguments hold --webui (lines 158-160).
RunStep ==
    /\ run.status = "running"
    /\ Len(run.steps) < Len(RunSteps)
    /\ LET step == RunSteps[Len(run.steps) + 1]
       IN  \E outcome \in Outcomes(run.steps, step.cond, step.always) :
               run' = [run EXCEPT
                          !.steps = Append(@, outcome),
                          !.webui = IF step.name = "Build the boot.iso" /\ outcome # "skipped"
                                    THEN ContainsSeq(prInfoOutputs.args, WebuiOption)
                                    ELSE @]
    /\ UNCHANGED <<distro_release, event, prInfo, prInfoOutputs>>
    /\ UNCHANGED dialogVars

FinishRun ==
    /\ run.status = "running"
    /\ Len(run.steps) = Len(RunSteps)
    /\ run' = [run EXCEPT !.status = IF Success(run.steps) THEN "success" ELSE "failure"]
    /\ UNCHANGED <<distro_release, event, prInfo, prInfoOutputs>>
    /\ UNCHANGED dialogVars

\* No dialog is involved in a workflow run.
DialogIdle ==
    /\ exception = [name |-> <<>>, message |-> <<>>, contextData |-> NoContextData]
    /\ DialogStart
    /\ isBootIso = FALSE
    /\ reportLinkURL = Undefined
    /\ phase = "init"

WorkflowInit ==
    /\ distro_release \in {"rawhide", "fedora-39"}
    /\ event \in Events
    /\ prInfo = [status |-> "queued", steps |-> <<>>]
    /\ prInfoOutputs = [allowed_user |-> "", sha |-> "", args |-> <<>>, image_description |-> <<>>]
    /\ run = [status |-> "queued", steps |-> <<>>, webui |-> FALSE]
    /\ DialogIdle

WorkflowNext ==
    \/ StartPrInfo
    \/ QueryPermission
    \/ CheckUserPerm
    \/ GetPullRequest
    \/ ParseArguments
    \/ ConstructImageDescription
    \/ MarkCommentSeen
    \/ SetOutputs
    \/ FinishPrInfo
    \/ StartRun
    \/ RunStep
    \/ FinishRun

WorkflowSpec == WorkflowInit /\ [][WorkflowNext]_vars

----------------------------------------------------------------------------
(* Property of the workflow *)

\* A step of job run was executed.
RunExecuted ==
    \/ run.status \in {"running", "success", "failure"}
    \/ \E i \in DOMAIN run.steps : run.steps[i] \in {"success", "failure"}

\* C8: job run executes only for a manual dispatch, or for a comment that
\* starts with /boot-iso from an author with admin or write permission; for a
\* comment from any other author, or when the permission check step did not
\* succeed, allowed_user is not 'true' and no step of job run is executed.
C8_RunOnlyForAllowedUsers ==
    /\ RunExecuted =>
          \/ event.event_name = "workflow_dispatch"
          \/ /\ event.event_name = "issue_comment"
             /\ startsWith(event.body, BootIsoCommand)
             /\ event.permission \in {Admin, Write}
    /\ (/\ event.event_name = "issue_comment"
        /\ event.permission \notin {Admin, Write} \/ Outcome(prInfo.steps, 2) # "success") =>
          /\ prInfoOutputs.allowed_user # "true"
          /\ ~RunExecuted

C8_ReaderRefused ==
    /\ event.event_name = "issue_comment"
    /\ startsWith(event.body, BootIsoCommand)
    /\ event.permission = Read
    /\ prInfo.status = "success"
    /\ prInfoOutputs.allowed_user = "false"
    /\ run.status = "skipped"

====
